---- MODULE Spec2Model ----
(***************************************************************************)
(* State-machine model of libpolyml/winbasicio.cpp: the overlapped         *)
(* buffered input stream (WinInStream), the wait/retry loops around        *)
(* ThreadPauseForIO, pollDescriptors, the directory stream and the stream  *)
(* cases of IO_dispatch_c.                                                 *)
(***************************************************************************)
EXTENDS Integers, Sequences, FiniteSets, TLC

\* ------------------------------------------------------------------ bounds
\* Longest file content.
MaxFile == 3
\* buffSize of WinInStream (4096 in the source), scaled down so that a file
\* spans several raw blocks.
BuffSize == 2
\* Largest length argument of a read.
MaxLen == 2

\* Longest stream vector given to pollDescriptors.
MaxDesc == 3
\* Latest system time reached and latest deadline given.
MaxTime == 2
\* Most ThreadPause calls followed within one pollDescriptors call.
MaxPause == 2
\* Most files in a directory, the entries "." and ".." not counted.
MaxEntries == 2
\* Most find calls failing one after the other that are followed within one
\* readDirectory call.
MaxFindFail == 2

\* Most close calls made on references to the standard streams.
MaxClose == 2

\* Most bytes the console pipe holds unread.
MaxPipe == 3

\* The carriage-return byte '\r'.
CR == 13

Min(a, b) == IF a < b THEN a ELSE b

\* The data byte stored at offset i (0-based) of a file: every offset holds a
\* byte of its own, so a skipped, repeated or reordered byte is visible.
DataByte(i) == 100 + i

\* File contents: at every offset either a carriage return or a data byte.
Contents ==
    UNION { { c \in [1..n -> {CR} \cup {DataByte(i) : i \in 0..(n-1)}] :
                \A i \in 1..n : c[i] \in {CR, DataByte(i-1)} } : n \in 0..MaxFile }

\* The text-mode view of a byte sequence: every carriage return removed.
RECURSIVE StripCR(_)
StripCR(q) ==
    IF q = <<>> THEN <<>>
    ELSE IF Head(q) = CR THEN StripCR(Tail(q))
         ELSE <<Head(q)>> \o StripCR(Tail(q))

Tasks == {1, 2}

\* Cap of the OVERLAPPED offset: past it no further operation is explored
\* (every offset from the end of the file on reads end-of-file).
PosCap == MaxFile + BuffSize

VARIABLES
    content,    \* bytes of the file the stream is opened on
    kind,       \* GetFileType of the handle: "disk" or "pipe"
    ref,        \* the ML stream reference: "unopened", "open" or "closed" (null)
    s,          \* the WinInStream object, with its OVERLAPPED and event
    pc,         \* per task: "idle" or the ThreadPauseForIO it is suspended in
    arg,        \* per task: the argument of the operation in progress
    lock,       \* owner of WinInStream::lock, 0 when free
    ready,      \* per task: result of its latest readiness test
    lastOp,     \* the latest event on the stream: [op, task, resumed, again];
                \* an OS completion is the event "complete" of task 0;
                \* resumed: the operation had paused before it ended;
                \* again: the event before was the same operation
    lastRet,    \* what that event returned: [res, val], res "ok", "raise",
                \* "closed" (STREAMCLOSED) or "fault"
    delivered,  \* bytes handed out by readStream since open or the last setPos
    seekBase,   \* offset given to the last setPos, -1 before the first one
    osMayFail,  \* the environment: whether OS calls of the stream can fail
                \* with an error other than end-of-file
    osFailed,   \* an OS call of the stream has failed
    lateWrite   \* the OS has completed a raw read into a deleted stream

VARIABLES
    pollStrm,   \* the stream vector of the poll: per position "open" or "closed"
    pollReady,  \* per position: the event bits the device is ready for now
    pollBits,   \* the vector of bits to test
    blockType,  \* 0: block until the time, 1: block, 2: do not block
    deadline,   \* the absolute time given with blockType 0
    now,        \* the system time
    pollPc,     \* "idle", "paused" (in ThreadPause) or "done"
    pollPauses, \* number of ThreadPause calls of the poll
    pollSeen,   \* what poll(bits) returned per position in the latest pass
    pollRes,    \* the result vector returned
    pollRet,    \* "ok", or "closed" (STREAMCLOSED raised)
    pollNow     \* the time ftNow read in the latest pass, -1 if it read none

VARIABLES
    dirList,    \* what the OS enumerates for the directory pattern, in order
    findMayFail,\* the environment: whether a find call can fail with an error
                \* other than "no more files"
    dirRef,     \* the ML directory reference: "unopened", "open" or "closed"
    pData,      \* the WinDirData: [hFind, lastFind, fFindSucceeded]
    findPos,    \* index in dirList of the entry the search handle gave last
    findLive,   \* number of search handles open
    findBad,    \* FindClose has been called on a handle already closed
    dirOut,     \* names returned by readDirectory since the open or rewind
    dirLast,    \* the latest directory operation: [op, res, name, again]
    dirRewound, \* rewindDirectory has succeeded
    dirFailed,  \* a find call has failed with another error
    dirPc       \* "idle", or "looping": readDirectory has not left its loop

VARIABLES
    stdRef,     \* per standard stream: the pointer held by the reference the
                \* dispatch returned for it, "null" once cleared
    stdLive,    \* per standard stream: its object has not been deleted
    stdCloses,  \* number of close calls made on these references
    stdLast     \* the latest operation on one of them: [op, strm, res]

stdVars == <<stdRef, stdLive, stdCloses, stdLast>>

VARIABLES
    wRef,       \* the ML reference to a WinStream opened for writing:
                \* "unopened", "open" or "closed" (null)
    ioDesc,     \* the C descriptor of that stream: "none", "open", or
                \* "released" (the number is free for the next open)
    wBad,       \* close has been called on a descriptor already released
    wLast       \* the latest operation on that stream: [op, res]

outVars == <<wRef, ioDesc, wBad, wLast>>

VARIABLES
    pipeAvail,        \* bytes in the pipe of the WinCopyInStream not yet read
    pipeClosed,       \* the copy thread has closed its end of the pipe
    hInputAvailable,  \* the manual-reset event: set or not
    copyPc,           \* the copy thread: "idle", or "added" (it has added
                      \* data and not yet set the event)
    ciPc,             \* the task on the WinCopyInStream: "idle", "call"
                      \* (about to call isAvailable), "reset" (after
                      \* ResetEvent), "false" (isAvailable returned false),
                      \* "waiting" (suspended on hInputAvailable)
    ciLast            \* what its latest operation was: "none", "wait", "read"

copyVars == <<pipeAvail, pipeClosed, hInputAvailable, copyPc, ciPc, ciLast>>

streamVars == <<content, kind, ref, s, pc, arg, lock, ready, lastOp, lastRet,
                delivered, seekBase, osMayFail, osFailed, lateWrite, stdVars,
                outVars, copyVars>>

pollVars == <<pollStrm, pollReady, pollBits, blockType, deadline, now, pollPc,
              pollPauses, pollSeen, pollRes, pollRet, pollNow>>

dirVars == <<dirList, findMayFail, dirRef, pData, findPos, findLive, findBad,
             dirOut, dirLast, dirRewound, dirFailed, dirPc>>

vars == <<streamVars, pollVars, dirVars>>

\* What no operation of the input stream changes.
others == <<content, kind, osMayFail, pollVars, dirVars, stdVars, outVars,
           copyVars>>

\* ------------------------------------------------------- the OS file object

\* Offset at which a raw read issued now takes its data: the OVERLAPPED offset
\* for a disk file; a pipe ignores it and hands out its bytes in order.
ReadOffset(st) == IF kind = "disk" THEN st.overlapPos ELSE st.osCursor

Remaining(st) == Len(content) - ReadOffset(st)

\* ReadFile/the device writes the bytes read to the front of the buffer. What
\* lies behind them is left over from earlier blocks; the stream reads the
\* buffer only below currentInBuffer, the length of the latest transfer, so
\* the leftover is kept as 0.
WriteBuffer(buf, chunk) == chunk \o [i \in 1..(BuffSize - Len(chunk)) |-> 0]

\* The ways the OS can complete the raw read of st: with 1..buffSize bytes,
\* with end-of-file (disk files: ERROR_HANDLE_EOF), or with another error
\* (a device error; the broken pipe of a pipe whose writer has gone).
\* A completion sets the event.
Completions(st) ==
    { [st EXCEPT !.io = "done", !.ioBytes = n, !.signalled = TRUE,
                 !.buffer = WriteBuffer(@, SubSeq(content, ReadOffset(st) + 1,
                                                  ReadOffset(st) + n)),
                 !.osCursor = IF kind = "disk" THEN @ ELSE @ + n]
        : n \in 1..Min(BuffSize, Remaining(st)) }
    \cup (IF kind = "disk" /\ Remaining(st) <= 0
          THEN {[st EXCEPT !.io = "eof", !.ioBytes = 0, !.signalled = TRUE]}
          ELSE {})
    \cup (IF osMayFail
          THEN {[st EXCEPT !.io = "err", !.ioBytes = 0, !.signalled = TRUE]}
          ELSE {})

\* State of the event after ReadFile failed at the call: ReadFile resets the
\* event when it starts, and whether a read refused at once sets it again is
\* left to the device.
SyncFailEvent == BOOLEAN

\* ------------------------------------------------------------ WinInStream

\* WinInStream::WinInStream
NewStream ==
    [ hStream |-> FALSE, hEvent |-> FALSE,
      buffer |-> [i \in 1..BuffSize |-> 0],
      currentInBuffer |-> 0, currentPtr |-> 0, endOfStream |-> FALSE,
      isText |-> FALSE, overlapPos |-> 0,
      io |-> "idle", ioBytes |-> 0, signalled |-> FALSE, osCursor |-> 0,
      cancelled |-> FALSE, overlapped2 |-> FALSE, closeCalls |-> <<>> ]

\* WinInStream::beginReading: the outcomes of ReadFile on the overlapped
\* structure. Each is [st, raised].
beginReading(st) ==
    LET st0 == [st EXCEPT !.io = "pending", !.signalled = FALSE,
                          !.overlapped2 = @ \/ st.io = "pending"]
    IN  \* ERROR_IO_PENDING
        {[st |-> st0, raised |-> FALSE]}
        \* ReadFile returned TRUE: completed at once
        \cup {[st |-> c, raised |-> FALSE] : c \in {c \in Completions(st0) : c.io = "done"}}
        \* ERROR_HANDLE_EOF
        \cup {[st |-> [c EXCEPT !.endOfStream = TRUE, !.signalled = e], raised |-> FALSE]
                : c \in {c \in Completions(st0) : c.io = "eof"}, e \in SyncFailEvent}
        \* any other error: raise_syscall
        \cup {[st |-> [c EXCEPT !.signalled = e], raised |-> TRUE]
                : c \in {c \in Completions(st0) : c.io = "err"}, e \in SyncFailEvent}

\* The loop "while (isText && currentPtr < currentInBuffer &&
\* buffer[currentPtr] == '\r') currentPtr++": the value of currentPtr after it.
RECURSIVE SkipCRs(_, _)
SkipCRs(st, p) ==
    IF st.isText /\ p < st.currentInBuffer /\ st.buffer[p + 1] = CR
    THEN SkipCRs(st, p + 1)
    ELSE p

\* An isAvailable that steps over the first byte it finds in a completed
\* block.
RECURSIVE isAvailableConsuming(_)
isAvailableConsuming(st) ==
    IF st.currentInBuffer < st.currentPtr \/ st.endOfStream
    THEN {[st |-> st, ret |-> "true"]}
    ELSE CASE st.io = "eof" ->
                {[st |-> [st EXCEPT !.endOfStream = TRUE], ret |-> "true"]}
           [] st.io = "pending" ->
                {[st |-> st, ret |-> "false"]}
           [] st.io = "err" ->
                {[st |-> st, ret |-> "raise"]}
           [] OTHER ->
                LET st1 == [st EXCEPT !.overlapPos = @ + st.ioBytes,
                                      !.currentInBuffer = st.ioBytes]
                    st2 == [st1 EXCEPT !.currentPtr =
                                          Min(st1.currentInBuffer, SkipCRs(st1, @) + 1)]
                IN  IF st2.currentPtr < st2.currentInBuffer
                    THEN {[st |-> st2, ret |-> "true"]}
                    ELSE UNION { IF b.raised
                                 THEN {[st |-> b.st, ret |-> "raise"]}
                                 ELSE isAvailableConsuming(b.st)
                                 : b \in beginReading(st2) }

\* WinInStream::isAvailable: the outcomes [st, ret] of one call, ret being
\* "true", "false" or "raise".
RECURSIVE isAvailable(_)
isAvailable(st) ==
    IF st.currentInBuffer < st.currentPtr \/ st.endOfStream
    THEN {[st |-> st, ret |-> "true"]}
    ELSE CASE st.io = "eof" ->
                {[st |-> [st EXCEPT !.endOfStream = TRUE], ret |-> "true"]}
           [] st.io = "pending" ->
                {[st |-> st, ret |-> "false"]}
           [] st.io = "err" ->
                {[st |-> st, ret |-> "raise"]}
           [] OTHER ->
                \* GetOverlappedResult succeeded with ioBytes bytes
                LET st1 == [st EXCEPT !.overlapPos = @ + st.ioBytes,
                                      !.currentInBuffer = st.ioBytes]
                    st2 == [st1 EXCEPT !.currentPtr = SkipCRs(st1, @)]
                IN  IF st2.currentPtr < st2.currentInBuffer
                    THEN {[st |-> st2, ret |-> "true"]}
                    ELSE UNION { IF b.raised
                                 THEN {[st |-> b.st, ret |-> "raise"]}
                                 ELSE isAvailable(b.st)
                                 : b \in beginReading(st2) }

\* The copy loop of readStream, from cursor p with out copied so far.
RECURSIVE CopyLoop(_, _, _, _)
CopyLoop(st, p, out, length) ==
    IF p < st.currentInBuffer /\ Len(out) < length
    THEN CopyLoop(st, p + 1,
                  IF ~st.isText \/ st.buffer[p + 1] # CR
                  THEN Append(out, st.buffer[p + 1]) ELSE out,
                  length)
    ELSE [p |-> p, out |-> out]

\* WinInStream::readStream: the outcomes [st, data, raised] of one call.
readStream(st, length) ==
    IF st.endOfStream
    THEN {[st |-> st, data |-> <<>>, raised |-> FALSE]}
    ELSE LET c   == CopyLoop(st, st.currentPtr, <<>>, length)
             st1 == [st EXCEPT !.currentPtr = c.p]
             st2 == [st1 EXCEPT !.currentPtr = SkipCRs(st1, @)]
         IN  IF st2.currentInBuffer = st2.currentPtr
             THEN {[st |-> b.st, data |-> c.out, raised |-> b.raised]
                     : b \in beginReading([st2 EXCEPT !.currentInBuffer = 0,
                                                      !.currentPtr = 0])}
             ELSE {[st |-> st2, data |-> c.out, raised |-> FALSE]}

\* WinInStream::getPos, for a disk file.
getPos(st) == st.overlapPos - st.currentInBuffer + st.currentPtr

\* ------------------------------------------------------------- the actions

Kinds == {"disk", "pipe"}

Event(op, t) == [op |-> op, task |-> t, resumed |-> FALSE, again |-> FALSE]

\* The static pointers standardInput, standardOutput and standardError.
StandardStreams == {"standardInput", "standardOutput", "standardError"}

\* Cases 0, 1, 2 have returned a reference to each standard stream.
InitStd ==
    /\ stdRef = [x \in StandardStreams |-> x]
    /\ stdLive = [x \in StandardStreams |-> TRUE]
    /\ stdCloses = 0
    /\ stdLast = [op |-> "none", strm |-> "null", res |-> "ok"]

\* No file has been opened for writing.
InitOut ==
    /\ wRef = "unopened"
    /\ ioDesc = "none"
    /\ wBad = FALSE
    /\ wLast = [op |-> "none", res |-> "ok"]

\* The console pipe is empty and nobody waits on it.
InitCopy ==
    /\ pipeAvail = 0
    /\ pipeClosed = FALSE
    /\ hInputAvailable = FALSE
    /\ copyPc = "idle"
    /\ ciPc = "idle"
    /\ ciLast = "none"

InitStream(cs, k, f) ==
    /\ InitStd
    /\ InitOut
    /\ InitCopy
    /\ content \in cs
    /\ kind = k
    /\ osMayFail = f
    /\ ref = "unopened"
    /\ s = NewStream
    /\ pc = [t \in Tasks |-> "idle"]
    /\ arg = [t \in Tasks |-> 0]
    /\ lock = 0
    /\ ready = [t \in Tasks |-> FALSE]
    /\ lastOp = Event("none", 0)
    /\ lastRet = [res |-> "ok", val |-> 0]
    /\ delivered = <<>>
    /\ seekBase = -1
    /\ osFailed = FALSE
    /\ lateWrite = FALSE

\* An operation of task t ends: it returns val, or raises.
Return(t, op, res, val) ==
    /\ pc' = [pc EXCEPT ![t] = "idle"]
    /\ arg' = [arg EXCEPT ![t] = 0]
    /\ lastOp' = [op |-> op, task |-> t, resumed |-> (pc[t] # "idle"),
                  again |-> (lastOp.op = op /\ lastOp.task = t)]
    /\ lastRet' = [res |-> res, val |-> val]

\* Task t is suspended in ThreadPauseForIO at the place `where`.
Pause(t, where, a) ==
    /\ pc' = [pc EXCEPT ![t] = where]
    /\ arg' = [arg EXCEPT ![t] = a]
    /\ lastOp' = Event("pause", t)
    /\ lastRet' = [res |-> "ok", val |-> 0]

\* openWinFile with mode OPENREAD: new WinInStream, openEntry.
openWinFile(t, isT) ==
    /\ ref = "unopened" /\ pc[t] = "idle"
    /\ LET st == [NewStream EXCEPT !.isText = isT, !.hEvent = TRUE,
                                   !.signalled = TRUE, !.hStream = TRUE]
       IN \/ \* CreateFile failed
             /\ osMayFail
             /\ Return(t, "open", "raise", 0)
             /\ osFailed' = TRUE
             /\ UNCHANGED <<ref, s>>
          \/ \E b \in beginReading(st) :
                /\ s' = b.st
                /\ ref' = IF b.raised THEN "unopened" ELSE "open"
                /\ osFailed' = (osFailed \/ b.raised)
                /\ Return(t, "open", IF b.raised THEN "raise" ELSE "ok", 0)
    /\ UNCHANGED <<others, lock, ready, delivered, seekBase, lateWrite>>

\* readArray / readString on an open stream: waitUntilAvailable, then
\* readStream. One step runs from the call, or from a resume, to the next
\* ThreadPauseForIO or to the return.
ReadBody(t, len) ==
    /\ ref = "open" /\ lock = 0
    /\ \E a \in isAvailable(s) :
         /\ a.st.overlapPos <= PosCap
         /\ ready' = [ready EXCEPT ![t] = (a.ret = "true")]
         /\ CASE a.ret = "false" ->
                   /\ s' = a.st
                   /\ Pause(t, "waitRead", len)
                   /\ UNCHANGED <<delivered, osFailed>>
              [] a.ret = "raise" ->
                   /\ s' = a.st
                   /\ Return(t, "read", "raise", 0)
                   /\ osFailed' = TRUE
                   /\ UNCHANGED delivered
              [] OTHER ->
                   \E r \in readStream(a.st, len) :
                     /\ s' = r.st
                     /\ osFailed' = (osFailed \/ r.raised)
                     /\ delivered' = IF r.raised THEN delivered
                                     ELSE delivered \o r.data
                     /\ Return(t, "read", IF r.raised THEN "raise" ELSE "ok",
                               IF r.raised THEN 0 ELSE Len(r.data))
    /\ UNCHANGED <<others, ref, lock, seekBase, lateWrite>>

readArray(t) == pc[t] = "idle" /\ \E len \in 1..MaxLen : ReadBody(t, len)

resumeRead(t) == pc[t] = "waitRead" /\ ReadBody(t, arg[t])

\* readArray run by a thread that others can overtake between its two calls
\* on the stream: first strm->waitUntilAvailable, from the call or from a
\* resume to the next ThreadPauseForIO or to its return.
ReadWaitBody(t, len) ==
    /\ ref = "open" /\ lock = 0
    /\ \E a \in isAvailable(s) :
         /\ a.st.overlapPos <= PosCap
         /\ s' = a.st
         /\ ready' = [ready EXCEPT ![t] = (a.ret = "true")]
         /\ osFailed' = (osFailed \/ a.ret = "raise")
         /\ CASE a.ret = "false" -> Pause(t, "waitRead", len)
              [] a.ret = "raise" -> Return(t, "read", "raise", 0)
              [] OTHER -> Pause(t, "haveInput", len)
    /\ UNCHANGED <<others, ref, lock, delivered, seekBase, lateWrite>>

readArrayWait(t) == pc[t] = "idle" /\ \E len \in 1..MaxLen : ReadWaitBody(t, len)

resumeReadArrayWait(t) == pc[t] = "waitRead" /\ ReadWaitBody(t, arg[t])

\* Then strm->readStream.
readArrayRead(t) ==
    /\ pc[t] = "haveInput"
    /\ ref = "open" /\ lock = 0
    /\ \E r \in readStream(s, arg[t]) :
         /\ s' = r.st
         /\ osFailed' = (osFailed \/ r.raised)
         /\ delivered' = IF r.raised THEN delivered ELSE delivered \o r.data
         /\ Return(t, "read", IF r.raised THEN "raise" ELSE "ok",
                   IF r.raised THEN 0 ELSE Len(r.data))
    /\ UNCHANGED <<others, ref, lock, ready, seekBase, lateWrite>>

\* WinInStream::waitUntilAvailable called from case 27.
WaitBody(t) ==
    /\ ref = "open" /\ lock = 0
    /\ \E a \in isAvailable(s) :
         /\ a.st.overlapPos <= PosCap
         /\ s' = a.st
         /\ ready' = [ready EXCEPT ![t] = (a.ret = "true")]
         /\ osFailed' = (osFailed \/ a.ret = "raise")
         /\ CASE a.ret = "false" -> Pause(t, "waitInput", 0)
              [] a.ret = "raise" -> Return(t, "waitInput", "raise", 0)
              [] OTHER -> Return(t, "waitInput", "ok", 0)
    /\ UNCHANGED <<others, ref, lock, delivered, seekBase, lateWrite>>

waitUntilAvailable(t) == pc[t] = "idle" /\ WaitBody(t)

resumeWaitInput(t) == pc[t] = "waitInput" /\ WaitBody(t)

\* WinStream::isAvailable of a stream of the base class: the result of one
\* call.
WinStream_isAvailable == BOOLEAN

\* WinStream::waitUntilAvailable of the base class.
WaitBaseBody(t) ==
    /\ ref = "open"
    /\ \E c \in WinStream_isAvailable :
         /\ ready' = [ready EXCEPT ![t] = c]
         /\ IF c THEN Return(t, "waitBase", "ok", 0)
                 ELSE Pause(t, "waitBase", 0)
    /\ UNCHANGED <<others, ref, s, lock, delivered, seekBase,
                   osFailed, lateWrite>>

waitUntilAvailableBase(t) == pc[t] = "idle" /\ WaitBaseBody(t)

resumeWaitBase(t) == pc[t] = "waitBase" /\ WaitBaseBody(t)

\* WinStream::canOutput: the result of one call.
canOutput == BOOLEAN

\* A wait for output that returns when the task is resumed, whatever
\* canOutput says then.
WaitOutputNoRetest(t) ==
    /\ ref = "open"
    /\ \E c \in canOutput :
         /\ ready' = [ready EXCEPT ![t] = c]
         /\ IF c \/ pc[t] = "waitOutput"
            THEN Return(t, "waitOutput", "ok", 0)
            ELSE Pause(t, "waitOutput", 0)
    /\ UNCHANGED <<others, ref, s, lock, delivered, seekBase,
                   osFailed, lateWrite>>

\* WinStream::waitUntilOutputPossible called from case 29.
WaitOutputBody(t) ==
    /\ ref = "open"
    /\ \E c \in canOutput :
         /\ ready' = [ready EXCEPT ![t] = c]
         /\ IF c THEN Return(t, "waitOutput", "ok", 0)
                 ELSE Pause(t, "waitOutput", 0)
    /\ UNCHANGED <<others, ref, s, lock, delivered, seekBase,
                   osFailed, lateWrite>>

waitUntilOutputPossible(t) == pc[t] = "idle" /\ WaitOutputBody(t)

resumeWaitOutput(t) == pc[t] = "waitOutput" /\ WaitOutputBody(t)

\* Case 16: one call of isAvailable.
dispatchIsAvailable(t) ==
    /\ ref = "open" /\ lock = 0 /\ pc[t] = "idle"
    /\ \E a \in isAvailable(s) :
         /\ a.st.overlapPos <= PosCap
         /\ s' = a.st
         /\ osFailed' = (osFailed \/ a.ret = "raise")
         /\ Return(t, "isAvailable", IF a.ret = "raise" THEN "raise" ELSE "ok",
                   IF a.ret = "true" THEN 1 ELSE 0)
    /\ UNCHANGED <<others, ref, lock, ready, delivered, seekBase, lateWrite>>

\* Case 18: getPos.
dispatchGetPos(t) ==
    /\ ref = "open" /\ pc[t] = "idle"
    /\ IF kind # "disk"
       THEN Return(t, "getPos", "raise", 0)
       ELSE lock = 0 /\ Return(t, "getPos", "ok", getPos(s))
    /\ UNCHANGED <<others, ref, s, lock, ready, delivered, seekBase,
                   osFailed, lateWrite>>

\* WaitForSingleObject(hEvent, 0): the results it can give.
WaitForSingleObject(st) ==
    {IF st.signalled THEN "WAIT_OBJECT_0" ELSE "WAIT_TIMEOUT"}
    \cup (IF osMayFail THEN {"WAIT_FAILED"} ELSE {})

\* The test of the wait loop of setPos on the result w.
SetPosWaitsOn(w) == w = "WAIT_TIMEOUT"

\* WinInStream::setPos from the test of the event on: either the task
\* pauses, keeping the lock, or the position is set and a new read started.
SetPosBody(t, p) ==
    \E w \in WaitForSingleObject(s) :
      IF SetPosWaitsOn(w)
      THEN /\ Pause(t, "setPos", p)
           /\ lock' = t
           /\ UNCHANGED <<s, delivered, seekBase, osFailed>>
      ELSE \E b \in beginReading([s EXCEPT !.overlapPos = p,
                                            !.currentInBuffer = 0,
                                            !.currentPtr = 0,
                                            !.endOfStream = FALSE]) :
              /\ s' = b.st
              /\ lock' = 0
              /\ osFailed' = (osFailed \/ b.raised \/ w = "WAIT_FAILED")
              /\ delivered' = <<>>
              /\ seekBase' = p
              /\ Return(t, "setPos", IF b.raised THEN "raise" ELSE "ok", p)

\* A setPos that does not ask for the type of the device.
dispatchSetPosAnyDevice(t) ==
    /\ ref = "open" /\ pc[t] = "idle"
    /\ lock = 0 /\ \E p \in 0..MaxFile : SetPosBody(t, p)
    /\ UNCHANGED <<others, ref, ready, lateWrite>>

\* Case 19: setPos.
dispatchSetPos(t) ==
    /\ ref = "open" /\ pc[t] = "idle"
    /\ IF kind # "disk"
       THEN /\ Return(t, "setPos", "raise", 0)
            /\ UNCHANGED <<s, lock, delivered, seekBase, osFailed>>
       ELSE lock = 0 /\ \E p \in 0..MaxFile : SetPosBody(t, p)
    /\ UNCHANGED <<others, ref, ready, lateWrite>>

resumeSetPos(t) ==
    /\ pc[t] = "setPos" /\ lock = t
    /\ SetPosBody(t, arg[t])
    /\ UNCHANGED <<others, ref, ready, lateWrite>>

\* A closeEntry that releases the handles without looking at the event.
closeEntryNoCancel(st) ==
    {[calls |-> <<"CloseHandle(hStream)", "CloseHandle(hEvent)">>,
      raised |-> FALSE]}

\* WinInStream::closeEntry: the OS calls it makes after the test of the
\* event, in order, or the raise when the test has failed.
closeEntry(st) ==
    { IF w = "WAIT_FAILED"
      THEN [calls |-> <<>>, raised |-> TRUE]
      ELSE [calls |-> (IF w = "WAIT_TIMEOUT" THEN <<"CancelIoEx">> ELSE <<>>)
                        \o <<"CloseHandle(hStream)", "CloseHandle(hEvent)">>,
            raised |-> FALSE]
      : w \in WaitForSingleObject(st) }

\* Case 7 on a WinInStream: closeEntry, delete, clear the reference. When
\* closeEntry raises it has released nothing, and case 7 is left with the
\* stream and the reference as they were. What is kept of a deleted stream
\* is the raw read the OS still has, whether its cancellation was asked
\* for, and the calls closeEntry made.
dispatchClose(t) ==
    /\ ref = "open" /\ pc[t] = "idle" /\ lock = 0
    /\ \E c \in closeEntry(s) :
         IF c.raised
         THEN /\ Return(t, "close", "raise", 0)
              /\ osFailed' = TRUE
              /\ UNCHANGED <<s, ref, delivered, seekBase>>
         ELSE /\ s' = [NewStream EXCEPT !.io = s.io,
                                        !.cancelled = (c.calls[1] = "CancelIoEx"),
                                        !.closeCalls = c.calls]
              /\ ref' = "closed"
              /\ delivered' = <<>>
              /\ seekBase' = -1
              /\ Return(t, "close", "ok", 0)
              /\ UNCHANGED osFailed
    /\ UNCHANGED <<others, lock, ready, lateWrite>>

\* A close that spares standard input only.
ClosesStreamButInput(stream) ==
    stream # "null" /\ stream # "standardInput"

\* The test of case 7: the stream is closed and deleted and the reference
\* cleared unless the pointer is null or one of the standard streams.
ClosesStream(stream) ==
    stream # "null" /\ stream # "standardInput"
        /\ stream # "standardOutput" /\ stream # "standardError"

\* Case 7 on a reference that has been cleared: nothing is called.
dispatchCloseCleared(t) ==
    /\ ref = "closed" /\ pc[t] = "idle"
    /\ ~ClosesStream("null")
    /\ Return(t, "close", "ok", 0)
    /\ UNCHANGED <<others, ref, s, lock, ready, delivered, seekBase, osFailed,
                   lateWrite>>

\* What no operation of the stream opened for writing changes.
notOut == <<content, kind, ref, s, pc, arg, lock, ready, lastOp, lastRet,
            delivered, seekBase, osMayFail, osFailed, lateWrite, stdVars,
            pollVars, dirVars, copyVars>>

\* openWinFile with mode OPENWRITE: new WinStream, openEntry (_topen).
openWinFileWrite ==
    /\ wRef = "unopened"
    /\ \/ /\ wRef' = "open"
          /\ ioDesc' = "open"
          /\ wLast' = [op |-> "open", res |-> "ok"]
       \/ /\ osMayFail
          /\ wLast' = [op |-> "open", res |-> "raise"]
          /\ UNCHANGED <<wRef, ioDesc>>
    /\ UNCHANGED <<notOut, wBad>>

\* close(ioDesc) of the C library on a descriptor in state d: [ret, desc].
\* A close that fails on an open descriptor has released it or not (the
\* library frees the descriptor also when the release of the OS handle
\* reports an error); on a released descriptor it fails.
close(d) ==
    IF d = "open"
    THEN {[ret |-> 0, desc |-> "released"]}
         \cup (IF osMayFail
               THEN {[ret |-> -1, desc |-> "open"], [ret |-> -1, desc |-> "released"]}
               ELSE {})
    ELSE {[ret |-> -1, desc |-> d]}

\* Case 7 on a WinStream opened for writing: WinStream::closeEntry, then
\* delete and clear the reference unless closeEntry has raised.
dispatchCloseWrite ==
    /\ wRef # "unopened"
    /\ IF ClosesStream(IF wRef = "closed" THEN "null" ELSE "stream")
       THEN \E c \in close(ioDesc) :
              /\ ioDesc' = c.desc
              /\ wBad' = (wBad \/ ioDesc = "released")
              /\ IF c.ret < 0
                 THEN /\ wLast' = [op |-> "close", res |-> "raise"]
                      /\ UNCHANGED wRef
                 ELSE /\ wLast' = [op |-> "close", res |-> "ok"]
                      /\ wRef' = "closed"
       ELSE /\ wLast' = [op |-> "close", res |-> "ok"]
            /\ UNCHANGED <<wRef, ioDesc, wBad>>
    /\ UNCHANGED notOut

\* Case 7 on the reference to the standard stream x.
dispatchCloseStd(x) ==
    /\ stdCloses < MaxClose
    /\ stdCloses' = stdCloses + 1
    /\ LET stream == stdRef[x]
       IN  IF ClosesStream(stream)
           THEN /\ stdLive' = [stdLive EXCEPT ![stream] = FALSE]
                /\ stdRef' = [stdRef EXCEPT ![x] = "null"]
           ELSE UNCHANGED <<stdRef, stdLive>>
    /\ stdLast' = [op |-> "close", strm |-> x, res |-> "ok"]
    /\ UNCHANGED <<content, kind, ref, s, pc, arg, lock, ready, lastOp, lastRet,
                   delivered, seekBase, osMayFail, osFailed, lateWrite,
                   pollVars, dirVars, outVars, copyVars>>

\* Case 21 (the kind of the device) on the reference to the standard stream
\* x: STREAMCLOSED on a cleared reference, a call on a deleted object
\* otherwise if the stream has been deleted.
dispatchFileKindStd(x) ==
    /\ stdLast' = [op |-> "fileKind", strm |-> x,
                   res |-> IF stdRef[x] = "null" THEN "closed"
                           ELSE IF ~stdLive[stdRef[x]] THEN "fault"
                           ELSE "ok"]
    /\ UNCHANGED <<content, kind, ref, s, pc, arg, lock, ready, lastOp, lastRet,
                   delivered, seekBase, osMayFail, osFailed, lateWrite,
                   stdRef, stdLive, stdCloses, pollVars, dirVars, outVars,
                   copyVars>>

\* The stream operation codes of IO_dispatch_c that take the stream reference.
ReadCodes == {8, 9, 10, 26}
WriteCodes == {11, 12}
PollManyCodes == {23, 24, 25}
StreamCodes == ReadCodes \cup WriteCodes \cup PollManyCodes \cup {16, 17, 18, 19, 20, 21, 22, 27, 28, 29}

\* What IO_dispatch_c does with operation code c on a reference that has been
\* cleared: the results it can end with. Every case but 22 tests the pointer
\* and raises STREAMCLOSED; pollTest calls a member through the null pointer,
\* which faults or returns whatever the call yields.
OnClosed(c) == IF c = 22 THEN {"fault", "ok"} ELSE {"closed"}

dispatchOnClosed(t) ==
    /\ ref = "closed" /\ pc[t] = "idle"
    /\ \E c \in StreamCodes : \E r \in OnClosed(c) : Return(t, "onClosed", r, c)
    /\ UNCHANGED <<others, ref, s, lock, ready, delivered,
                   seekBase, osFailed, lateWrite>>

\* The OS completes the outstanding raw read of an open stream.
OSComplete ==
    /\ ref = "open" /\ s.io = "pending"
    /\ \E c \in Completions(s) :
         /\ s' = c
         /\ osFailed' = (osFailed \/ c.io = "err")
    /\ lastOp' = Event("complete", 0)
    /\ lastRet' = [res |-> "ok", val |-> 0]
    /\ UNCHANGED <<others, ref, pc, arg, lock, ready, delivered, seekBase,
                   lateWrite>>

\* The OS completes a raw read (cancelled or not) whose stream has been
\* deleted: it stores the status in the OVERLAPPED of the freed object, and
\* data in the freed buffer when the cancel came too late.
OSLateComplete ==
    /\ ref = "closed" /\ s.io = "pending"
    /\ s' = [s EXCEPT !.io = "done"]
    /\ lateWrite' = TRUE
    /\ lastOp' = Event("complete", 0)
    /\ lastRet' = [res |-> "ok", val |-> 0]
    /\ UNCHANGED <<others, ref, pc, arg, lock, ready, delivered, seekBase,
                   osFailed>>

\* ----------------------------------------------------------- WinCopyInStream

\* What no step on the console pipe changes.
notCopy == <<content, kind, ref, s, pc, arg, lock, ready, lastOp, lastRet,
             delivered, seekBase, osMayFail, osFailed, lateWrite, stdVars,
             outVars, pollVars, dirVars>>

\* The copy thread adds data to the pipe.
copyAdd ==
    /\ copyPc = "idle" /\ ~pipeClosed /\ pipeAvail < MaxPipe
    /\ \E n \in 1..(MaxPipe - pipeAvail) : pipeAvail' = pipeAvail + n
    /\ copyPc' = "added"
    /\ UNCHANGED <<notCopy, pipeClosed, hInputAvailable, ciPc, ciLast>>

\* Then it sets hInputAvailable.
copySignal ==
    /\ copyPc = "added"
    /\ hInputAvailable' = TRUE
    /\ copyPc' = "idle"
    /\ UNCHANGED <<notCopy, pipeAvail, pipeClosed, ciPc, ciLast>>

\* The copy thread ends and closes its end of the pipe.
copyClose ==
    /\ copyPc = "idle" /\ ~pipeClosed
    /\ pipeClosed' = TRUE
    /\ hInputAvailable' = TRUE
    /\ UNCHANGED <<notCopy, pipeAvail, copyPc, ciPc, ciLast>>

\* WinCopyInStream::waitUntilAvailable is called.
copyInWait ==
    /\ ciPc = "idle"
    /\ ciPc' = "call"
    /\ UNCHANGED <<notCopy, pipeAvail, pipeClosed, hInputAvailable, copyPc, ciLast>>

\* WinCopyInStream::isAvailable up to ResetEvent.
copyInReset ==
    /\ ciPc = "call"
    /\ hInputAvailable' = FALSE
    /\ ciPc' = "reset"
    /\ UNCHANGED <<notCopy, pipeAvail, pipeClosed, copyPc, ciLast>>

\* PeekNamedPipe: [ok, dwAvail]. It fails on a pipe that is closed and
\* empty.
PeekNamedPipe ==
    IF pipeClosed /\ pipeAvail = 0
    THEN [ok |-> FALSE, dwAvail |-> 0]
    ELSE [ok |-> TRUE, dwAvail |-> pipeAvail]

\* WinCopyInStream::isAvailable from PeekNamedPipe on: it returns false, or
\* sets the event and returns true, and waitUntilAvailable returns.
copyInPeek ==
    /\ ciPc = "reset"
    /\ IF PeekNamedPipe.ok /\ PeekNamedPipe.dwAvail = 0
       THEN /\ ciPc' = "false"
            /\ UNCHANGED <<hInputAvailable, ciLast>>
       ELSE /\ hInputAvailable' = TRUE
            /\ ciPc' = "idle"
            /\ ciLast' = "wait"
    /\ UNCHANGED <<notCopy, pipeAvail, pipeClosed, copyPc>>

\* A suspension that resets the event itself, after the pipe was found
\* empty.
copyInPauseResetting ==
    /\ ciPc = "false"
    /\ ciPc' = "waiting"
    /\ hInputAvailable' = FALSE
    /\ UNCHANGED <<notCopy, pipeAvail, pipeClosed, copyPc, ciLast>>

\* ThreadPauseForIO with a WaitHandle on hInputAvailable.
copyInPause ==
    /\ ciPc = "false"
    /\ ciPc' = "waiting"
    /\ UNCHANGED <<notCopy, pipeAvail, pipeClosed, hInputAvailable, copyPc, ciLast>>

\* The task is resumed when the event is set, and calls isAvailable again.
copyInResume ==
    /\ ciPc = "waiting" /\ hInputAvailable
    /\ ciPc' = "call"
    /\ UNCHANGED <<notCopy, pipeAvail, pipeClosed, hInputAvailable, copyPc, ciLast>>

\* WinStream::readStream on the pipe: read takes some of the bytes there.
copyInRead ==
    /\ ciPc = "idle" /\ pipeAvail > 0
    /\ \E n \in 1..pipeAvail : pipeAvail' = pipeAvail - n
    /\ ciLast' = "read"
    /\ UNCHANGED <<notCopy, pipeClosed, hInputAvailable, copyPc, ciPc>>

\* ---------------------------------------------------------- pollDescriptors

\* The event bits of a poll request.
POLL_BIT_IN == 1
POLL_BIT_OUT == 2

\* The C operator & on event bits.
RECURSIVE BitAnd(_, _)
BitAnd(a, b) ==
    IF a = 0 \/ b = 0 THEN 0
    ELSE (a % 2) * (b % 2) + 2 * BitAnd(a \div 2, b \div 2)

\* The bits a caller asks for, and the bits a device can be ready for.
RequestBits == {POLL_BIT_IN, POLL_BIT_IN + POLL_BIT_OUT}
ReadyBits == {0, POLL_BIT_IN, POLL_BIT_OUT}

\* The stream vectors: all streams open, or one of them closed.
StreamVectors ==
    UNION { { [i \in 1..n |-> IF i = k THEN "closed" ELSE "open"] : k \in 0..n }
            : n \in 0..MaxDesc }

\* WinStream::poll of the stream at position i: the requested bits the
\* device is ready for.
poll(i, bits) == BitAnd(bits, pollReady[i])

\* A loop whose result vector has an entry only for the streams that
\* reported something.
PollLoopReadyOnly(bits) ==
    LET nDesc == Len(pollStrm)
        seen  == [i \in 1..nDesc |-> poll(i, bits[i])]
        count == Cardinality({i \in 1..nDesc : seen[i] # 0})
    IN  [ raised     |-> \E i \in 1..nDesc : pollStrm[i] = "closed",
          results    |-> [i \in 1..count |-> 0],
          seen       |-> seen,
          haveResult |-> \E i \in 1..nDesc : seen[i] # 0 ]

\* The loop over the descriptors, after the memset of results: [raised,
\* results, seen, haveResult]. res is tested and dropped; nothing is stored
\* in results.
PollLoop(bits) ==
    LET nDesc == Len(pollStrm)
        seen  == [i \in 1..nDesc |-> poll(i, bits[i])]
    IN  [ raised     |-> \E i \in 1..nDesc : pollStrm[i] = "closed",
          results    |-> [i \in 1..nDesc |-> 0],
          seen       |-> seen,
          haveResult |-> \E i \in 1..nDesc : seen[i] # 0 ]

\* A poll that blocks also when it is asked not to.
PollReturnsNeverAtOnce(haveResult, block, time) ==
    haveResult \/ (block = 0 /\ time <= now)

\* A poll that blocks although a stream is ready.
PollReturnsIgnoringReady(haveResult, block, time) ==
    block = 2 \/ (block = 0 /\ time <= now)

\* A poll that goes on to block at the time of the deadline.
PollReturnsLate(haveResult, block, time) ==
    haveResult \/ block = 2 \/ (block = 0 /\ time < now)

\* The test of haveResult and the switch on blockType: whether the pass ends
\* with the return (TRUE) or with ThreadPause.
PollReturns(haveResult, block, time) ==
    haveResult \/ block = 2 \/ (block = 0 /\ time <= now)

\* The system time the pass reads: case 0 of the switch reads it, and the
\* switch is entered only when no stream reported anything.
TimeRead(haveResult, block) ==
    IF ~haveResult /\ block = 0 THEN now ELSE -1

\* pollDescriptors from TryAgain to the return, the raise or ThreadPause.
PollBody(bits, block, time) ==
    LET l == PollLoop(bits)
    IN  /\ pollBits' = bits /\ blockType' = block /\ deadline' = time
        /\ CASE l.raised ->
                  /\ pollPc' = "done" /\ pollRet' = "closed"
                  /\ pollSeen' = <<>> /\ pollRes' = <<>>
                  /\ pollNow' = -1
                  /\ UNCHANGED pollPauses
             [] ~l.raised /\ PollReturns(l.haveResult, block, time) ->
                  /\ pollPc' = "done" /\ pollRet' = "ok"
                  /\ pollSeen' = l.seen /\ pollRes' = l.results
                  /\ pollNow' = TimeRead(l.haveResult, block)
                  /\ UNCHANGED pollPauses
             [] OTHER ->
                  /\ pollPauses < MaxPause
                  /\ pollPc' = "paused" /\ pollPauses' = pollPauses + 1
                  /\ pollSeen' = l.seen
                  /\ pollNow' = TimeRead(l.haveResult, block)
                  /\ UNCHANGED <<pollRes, pollRet>>
        /\ UNCHANGED <<streamVars, dirVars, pollStrm, pollReady, now>>

\* Cases 23, 24 and 25 of IO_dispatch_c.
pollDescriptors(block) ==
    /\ pollPc = "idle"
    /\ \E bits \in [1..Len(pollStrm) -> RequestBits] :
       \E time \in (IF block = 0 THEN 0..MaxTime ELSE {0}) :
          PollBody(bits, block, time)

\* The task is resumed from ThreadPause: goto TryAgain.
resumePoll ==
    /\ pollPc = "paused"
    /\ PollBody(pollBits, blockType, deadline)

\* A device becomes ready for other events while the task is paused.
DeviceChange ==
    /\ pollPc = "paused"
    /\ \E i \in 1..Len(pollStrm) : \E r \in ReadyBits \ {pollReady[i]} :
          pollReady' = [pollReady EXCEPT ![i] = r]
    /\ UNCHANGED <<streamVars, dirVars, pollStrm, pollBits, blockType, deadline,
                   now, pollPc, pollPauses, pollSeen, pollRes, pollRet, pollNow>>

\* The system time advances while the task is paused.
Tick ==
    /\ pollPc = "paused" /\ blockType = 0 /\ now < MaxTime
    /\ now' = now + 1
    /\ UNCHANGED <<streamVars, dirVars, pollStrm, pollReady, pollBits, blockType,
                   deadline, pollPc, pollPauses, pollSeen, pollRes, pollRet,
                   pollNow>>

InitPoll(vs) ==
    /\ pollStrm \in vs
    /\ pollReady \in [1..Len(pollStrm) -> ReadyBits]
    /\ pollBits = <<>>
    /\ blockType = 2
    /\ deadline = 0
    /\ now = 0
    /\ pollPc = "idle"
    /\ pollPauses = 0
    /\ pollSeen = <<>>
    /\ pollRes = <<>>
    /\ pollRet = "ok"
    /\ pollNow = -1

\* ------------------------------------------------------ the directory stream

FileNames == {"a", "b", "c"}

Entry(n, d) == [name |-> n, isDir |-> d]

\* The enumerations of a directory: "." and ".." first (a root directory has
\* neither), then up to MaxEntries files or directories of different names.
Listings ==
    LET files == UNION { { f \in [1..n -> [name : FileNames, isDir : BOOLEAN]] :
                             \A i, j \in 1..n : i # j => f[i].name # f[j].name }
                         : n \in 0..MaxEntries }
    IN  { pre \o f : pre \in {<<>>, <<Entry(".", TRUE), Entry("..", TRUE)>>},
                     f \in files }

\* A test that knows the current arc only.
IsPseudoDotOnly(e) == e.isDir /\ e.name = "."

\* The test of readDirectory for the current and the parent arc.
IsPseudo(e) == e.isDir /\ (e.name = "." \/ e.name = "..")

\* result == NULL in readDirectory.
NoResult == "<null>"

\* new WinDirData
NewDirData ==
    [hFind |-> "invalid", lastFind |-> Entry("", FALSE), fFindSucceeded |-> FALSE]

\* FindNextFile on the search handle h at position pos: [ok, err, pos, find].
\* A handle that has been closed gives an error.
FindNextFile(h, pos, find) ==
    IF h # "live"
    THEN {[ok |-> FALSE, err |-> "other", pos |-> pos, find |-> find]}
    ELSE (IF pos < Len(dirList)
          THEN {[ok |-> TRUE, err |-> "none", pos |-> pos + 1,
                 find |-> dirList[pos + 1]]}
          ELSE {[ok |-> FALSE, err |-> "ERROR_NO_MORE_FILES", pos |-> pos,
                 find |-> find]})
         \cup (IF findMayFail
               THEN {[ok |-> FALSE, err |-> "other", pos |-> pos, find |-> find]}
               ELSE {})

\* The loop of readDirectory, entered with result and with fails failed find
\* calls behind it: the outcomes [pd, pos, result, failed, looping] of the
\* call. looping: MaxFindFail find calls have failed in a row and the loop
\* goes on.
RECURSIVE ReadLoop(_, _, _, _)
ReadLoop(pd, pos, result, fails) ==
    LET r1 == IF ~IsPseudo(pd.lastFind) THEN pd.lastFind.name ELSE result
        out(d, q, r, f, l) ==
            [pd |-> d, pos |-> q, result |-> r, failed |-> f, looping |-> l]
    IN  UNION {
          IF n.ok
          THEN LET pd1 == [pd EXCEPT !.lastFind = n.find]
               IN  IF r1 # NoResult THEN {out(pd1, n.pos, r1, fails > 0, FALSE)}
                   ELSE ReadLoop(pd1, n.pos, r1, 0)
          ELSE IF n.err = "ERROR_NO_MORE_FILES"
          THEN {out([pd EXCEPT !.fFindSucceeded = FALSE], pos,
                    IF r1 = NoResult THEN "" ELSE r1, fails > 0, FALSE)}
          ELSE IF r1 # NoResult THEN {out(pd, pos, r1, TRUE, FALSE)}
          ELSE IF fails + 1 >= MaxFindFail THEN {out(pd, pos, r1, TRUE, TRUE)}
          ELSE ReadLoop(pd, pos, r1, fails + 1)
          : n \in FindNextFile(pd.hFind, pos, pd.lastFind) }

\* again: the operation before was the same one.
DirEvent(op, res, name) ==
    [op |-> op, res |-> res, name |-> name, again |-> (dirLast.op = op)]

\* FindClose on the handle held in pData.
FindClose ==
    /\ findLive' = IF pData.hFind = "live" THEN findLive - 1 ELSE findLive
    /\ findBad' = (findBad \/ pData.hFind # "live")

\* Case 50: openDirectory.
openDirectory ==
    /\ dirRef = "unopened" /\ dirPc = "idle"
    /\ \/ \* FindFirstFile gives the first entry
          /\ dirList # <<>>
          /\ pData' = [hFind |-> "live", lastFind |-> dirList[1],
                       fFindSucceeded |-> TRUE]
          /\ findPos' = 1
          /\ findLive' = findLive + 1
          /\ dirRef' = "open"
          /\ dirLast' = DirEvent("open", "ok", "")
          /\ UNCHANGED dirFailed
       \/ \* FindFirstFile fails: nothing matches, or another error
          /\ dirList = <<>> \/ findMayFail
          /\ dirLast' = DirEvent("open", "raise", "")
          /\ dirFailed' = (dirFailed \/ dirList # <<>>)
          /\ UNCHANGED <<pData, findPos, findLive, dirRef>>
    /\ UNCHANGED <<streamVars, pollVars, dirList, findMayFail, findBad, dirOut,
                   dirRewound, dirPc>>

\* Case 51: readDirectory.
readDirectory ==
    /\ dirPc = "idle" /\ dirRef # "unopened"
    /\ Len(dirOut) <= MaxEntries
    /\ IF dirRef = "closed"
       THEN /\ dirLast' = DirEvent("read", "closed", "")
            /\ UNCHANGED <<pData, findPos, dirOut, dirFailed, dirPc>>
       ELSE IF ~pData.fFindSucceeded
       THEN /\ dirLast' = DirEvent("read", "ok", "")
            /\ UNCHANGED <<pData, findPos, dirOut, dirFailed, dirPc>>
       ELSE \E o \in ReadLoop(pData, findPos, NoResult, 0) :
              /\ pData' = o.pd
              /\ findPos' = o.pos
              /\ dirFailed' = (dirFailed \/ o.failed)
              /\ IF o.looping
                 THEN /\ dirPc' = "looping"
                      /\ dirLast' = DirEvent("read", "none", "")
                      /\ UNCHANGED dirOut
                 ELSE /\ dirLast' = DirEvent("read", "ok", o.result)
                      /\ dirOut' = IF o.result = "" THEN dirOut
                                   ELSE Append(dirOut, o.result)
                      /\ UNCHANGED dirPc
    /\ UNCHANGED <<streamVars, pollVars, dirList, findMayFail, dirRef, findLive,
                   findBad, dirRewound>>

\* Case 53: rewindDirectory.
rewindDirectory ==
    /\ dirPc = "idle" /\ dirRef # "unopened"
    /\ IF dirRef = "closed"
       THEN /\ dirLast' = DirEvent("rewind", "closed", "")
            /\ UNCHANGED <<pData, findPos, findLive, findBad, dirOut, dirRewound,
                           dirFailed>>
       ELSE /\ findBad' = (findBad \/ pData.hFind # "live")
            /\ \/ \* FindFirstFile gives the first entry again
                  /\ pData' = [hFind |-> "live", lastFind |-> dirList[1],
                               fFindSucceeded |-> TRUE]
                  /\ findPos' = 1
                  /\ findLive' = IF pData.hFind = "live" THEN findLive
                                 ELSE findLive + 1
                  /\ dirOut' = <<>>
                  /\ dirRewound' = TRUE
                  /\ dirLast' = DirEvent("rewind", "ok", "")
                  /\ UNCHANGED dirFailed
               \/ \* FindFirstFile fails: pData keeps the handle just closed
                  /\ findMayFail
                  /\ pData' = [pData EXCEPT !.hFind = "stale"]
                  /\ findLive' = IF pData.hFind = "live" THEN findLive - 1
                                 ELSE findLive
                  /\ dirFailed' = TRUE
                  /\ dirLast' = DirEvent("rewind", "raise", "")
                  /\ UNCHANGED <<findPos, dirOut, dirRewound>>
    /\ UNCHANGED <<streamVars, pollVars, dirList, findMayFail, dirRef, dirPc>>

\* A closeDirectory that does not test the reference.
closeDirectoryNoTest ==
    /\ dirPc = "idle" /\ dirRef # "unopened"
    /\ FindClose
    /\ pData' = NewDirData
    /\ dirRef' = "closed"
    /\ dirLast' = DirEvent("close", "ok", "")
    /\ UNCHANGED <<streamVars, pollVars, dirList, findMayFail, findPos, dirOut,
                   dirRewound, dirFailed, dirPc>>

\* Case 52: closeDirectory.
closeDirectory ==
    /\ dirPc = "idle" /\ dirRef # "unopened"
    /\ IF dirRef = "closed"
       THEN UNCHANGED <<pData, findLive, findBad, dirRef>>
       ELSE /\ FindClose
            /\ pData' = NewDirData
            /\ dirRef' = "closed"
    /\ dirLast' = DirEvent("close", "ok", "")
    /\ UNCHANGED <<streamVars, pollVars, dirList, findMayFail, findPos, dirOut,
                   dirRewound, dirFailed, dirPc>>

InitDir(ls, fs) ==
    /\ dirList \in ls
    /\ findMayFail \in fs
    /\ dirRef = "unopened"
    /\ pData = NewDirData
    /\ findPos = 0
    /\ findLive = 0
    /\ findBad = FALSE
    /\ dirOut = <<>>
    /\ dirLast = [op |-> "none", res |-> "ok", name |-> "", again |-> FALSE]
    /\ dirRewound = FALSE
    /\ dirFailed = FALSE
    /\ dirPc = "idle"

\* ------------------------------------------------------ the specifications

\* No poll is made and no directory is opened.
NoPoll == InitPoll({<<>>})
NoDir == InitDir({<<>>}, {FALSE})
\* No file is opened.
NoStream == InitStream({<<>>}, "disk", FALSE)

Init == InitStream(Contents, "disk", FALSE) /\ NoPoll /\ NoDir

\* The input engine: a stream is opened and used through isAvailable, reads,
\* getPos and setPos while the OS completes its raw reads.
Next ==
    \/ \E isT \in BOOLEAN : openWinFile(1, isT)
    \/ readArray(1)
    \/ resumeRead(1)
    \/ dispatchIsAvailable(1)
    \/ dispatchGetPos(1)
    \/ dispatchSetPos(1)
    \/ resumeSetPos(1)
    \/ OSComplete

Spec == Init /\ [][Next]_vars

\* Reading only: a file is opened and read through the dispatch path (every
\* readStream preceded by waitUntilAvailable), nothing else is called.
NextRead ==
    \/ \E isT \in BOOLEAN : openWinFile(1, isT)
    \/ readArray(1)
    \/ resumeRead(1)
    \/ OSComplete

SpecRead == Init /\ [][NextRead]_vars

\* The wait loops: reads and the waits for input and for output.
NextWait ==
    \/ \E isT \in BOOLEAN : openWinFile(1, isT)
    \/ readArray(1)
    \/ resumeRead(1)
    \/ waitUntilAvailable(1)
    \/ resumeWaitInput(1)
    \/ waitUntilAvailableBase(1)
    \/ resumeWaitBase(1)
    \/ waitUntilOutputPossible(1)
    \/ resumeWaitOutput(1)
    \/ OSComplete

SpecWait == Init /\ [][NextWait]_vars

\* Closing: a stream is opened, read, closed, and used after the close.
NextClose ==
    \/ \E isT \in BOOLEAN : openWinFile(1, isT)
    \/ readArray(1)
    \/ resumeRead(1)
    \/ dispatchClose(1)
    \/ dispatchOnClosed(1)
    \/ OSComplete
    \/ OSLateComplete

SpecClose == Init /\ [][NextClose]_vars

\* OS failures: the input engine while ReadFile, GetOverlappedResult and
\* CreateFile can fail with an error other than end-of-file, followed up to
\* the first failure.
InitErr == InitStream(Contents, "disk", TRUE) /\ NoPoll /\ NoDir

NextErr ==
    /\ ~osFailed
    /\ \/ \E isT \in BOOLEAN : openWinFile(1, isT)
       \/ readArray(1)
       \/ resumeRead(1)
       \/ dispatchIsAvailable(1)
       \/ dispatchSetPos(1)
       \/ resumeSetPos(1)
       \/ OSComplete

SpecErr == InitErr /\ [][NextErr]_vars

\* Two threads read the same stream; each can be overtaken by the other
\* between its waitUntilAvailable and its readStream.
NextTwo ==
    \/ \E isT \in BOOLEAN : openWinFile(1, isT)
    \/ \E t \in Tasks : readArrayWait(t)
    \/ \E t \in Tasks : resumeReadArrayWait(t)
    \/ \E t \in Tasks : readArrayRead(t)
    \/ OSComplete

SpecTwo == Init /\ [][NextTwo]_vars

\* Closing files and standard streams through case 7.
NextStd ==
    \/ \E isT \in BOOLEAN : openWinFile(1, isT)
    \/ dispatchClose(1)
    \/ \E x \in StandardStreams : dispatchCloseStd(x)
    \/ \E x \in StandardStreams : dispatchFileKindStd(x)
    \/ OSComplete

SpecStd == Init /\ [][NextStd]_vars

\* A stream on a pipe: the input engine on a device that is not a disk file.
InitPipe == InitStream(Contents, "pipe", FALSE) /\ NoPoll /\ NoDir

NextPipe ==
    \/ \E isT \in BOOLEAN : openWinFile(1, isT)
    \/ readArray(1)
    \/ resumeRead(1)
    \/ dispatchIsAvailable(1)
    \/ dispatchGetPos(1)
    \/ dispatchSetPos(1)
    \/ OSComplete

SpecPipe == InitPipe /\ [][NextPipe]_vars

\* Progress: the input engine on a disk file, with an OS that completes
\* every raw read it has accepted and a scheduler that resumes every task
\* suspended in ThreadPauseForIO.
NextLive ==
    \/ \E isT \in BOOLEAN : openWinFile(1, isT)
    \/ readArray(1)
    \/ resumeRead(1)
    \/ waitUntilAvailable(1)
    \/ resumeWaitInput(1)
    \/ dispatchSetPos(1)
    \/ resumeSetPos(1)
    \/ OSComplete

SpecLive ==
    /\ Init /\ [][NextLive]_vars
    /\ WF_vars(OSComplete)
    /\ WF_vars(resumeRead(1)) /\ WF_vars(resumeWaitInput(1))
    /\ WF_vars(resumeSetPos(1))

\* The console pipe: a task waits for input and reads while the copy thread
\* adds data, every step of the one interleaved with the steps of the other.
NextCopy ==
    \/ copyAdd
    \/ copySignal
    \/ copyClose
    \/ copyInWait
    \/ copyInReset
    \/ copyInPeek
    \/ copyInPause
    \/ copyInResume
    \/ copyInRead

InitCopySpec == NoStream /\ NoPoll /\ NoDir

SpecCopy == InitCopySpec /\ [][NextCopy]_vars

\* Opening and closing: a file is opened for reading and one for writing,
\* and each is closed any number of times, while the OS calls can fail.
NextLife ==
    \/ \E isT \in BOOLEAN : openWinFile(1, isT)
    \/ dispatchClose(1)
    \/ dispatchCloseCleared(1)
    \/ openWinFileWrite
    \/ dispatchCloseWrite
    \/ OSComplete

SpecLife == InitErr /\ [][NextLife]_vars

\* Polling: one call of pollDescriptors on a vector of streams whose devices
\* change while the task is paused.
InitPollSpec == NoStream /\ InitPoll(StreamVectors) /\ NoDir

NextPoll ==
    \/ \E block \in 0..2 : pollDescriptors(block)
    \/ resumePoll
    \/ DeviceChange
    \/ Tick

SpecPoll == InitPollSpec /\ [][NextPoll]_vars

\* Polling to a deadline: case 24, with a scheduler that resumes a task that
\* is in ThreadPause.
NextDeadline ==
    \/ pollDescriptors(0)
    \/ resumePoll
    \/ DeviceChange
    \/ Tick

\* The deadline test does not look at the streams: shorter vectors.
InitDeadline ==
    /\ NoStream /\ NoDir
    /\ InitPoll({v \in StreamVectors : Len(v) < MaxDesc})

SpecDeadline == InitDeadline /\ [][NextDeadline]_vars /\ WF_vars(resumePoll)

\* Directories: a directory is opened, read, rewound and closed.
InitDirSpec == NoStream /\ NoPoll /\ InitDir(Listings, BOOLEAN)

NextDir ==
    \/ openDirectory
    \/ readDirectory
    \/ rewindDirectory
    \/ closeDirectory

SpecDir == InitDirSpec /\ [][NextDir]_vars

\* -------------------------------------------------------------- the claims

\* What a stream opened on the file has to deliver from offset p on.
Expected(p) ==
    LET rest == SubSeq(content, p + 1, Len(content))
    IN  IF s.isText THEN StripCR(rest) ELSE rest

IsPrefix(a, b) == Len(a) <= Len(b) /\ a = SubSeq(b, 1, Len(a))

\* C1: when a read of the dispatch path returns zero bytes, the bytes the
\* reads have delivered are the whole file, without its carriage returns in
\* text mode.
C1_ReadsDeliverContent ==
    (ref = "open" /\ lastOp.op = "read" /\ lastRet.res = "ok" /\ lastRet.val = 0)
        => delivered = Expected(0)

Base == IF seekBase < 0 THEN 0 ELSE seekBase

\* C2: the vector pollDescriptors returns holds, at every position, the bits
\* the poll of that stream reported in the final pass.
C2_PollResultsAreStreamBits ==
    (pollPc = "done" /\ pollRet = "ok") => pollRes = pollSeen

\* Three streams, only the second ready for input, polled without blocking.
C2_Example ==
    /\ pollPc = "done" /\ pollRet = "ok" /\ blockType = 2 /\ pollPauses = 0
    /\ pollReady = <<0, POLL_BIT_IN, 0>>
    /\ pollBits = <<POLL_BIT_IN, POLL_BIT_IN, POLL_BIT_IN>>

\* C3: after setPos(p) on a disk file getPos is p, and the next read delivers
\* the bytes of the file from offset p on (at least one, unless there is none).
C3_SetPosGetPosRead ==
    /\ (ref = "open" /\ lastOp.op = "setPos" /\ lastRet.res = "ok")
          => getPos(s) = lastRet.val
    /\ (ref = "open" /\ seekBase >= 0 /\ lastOp.op = "read" /\ lastRet.res = "ok"
            /\ Len(delivered) = lastRet.val)
          => /\ IsPrefix(delivered, Expected(seekBase))
             /\ (lastRet.val = 0 => Expected(seekBase) = <<>>)

\* C4: on a binary disk stream getPos is the offset of the last setPos (0
\* after open) plus the number of bytes the reads have delivered since.
C4_PositionIsBasePlusDelivered ==
    (ref = "open" /\ kind = "disk" /\ ~s.isText)
        => getPos(s) = Base + Len(delivered)

\* C5: an isAvailable call that directly follows another one, with no OS
\* completion and no other operation between them, leaves currentInBuffer and
\* currentPtr as they are and returns what the first call returned.
C5_IsAvailableTwice ==
    [][(lastOp.op = "isAvailable" /\ lastOp'.op = "isAvailable")
          => /\ s'.currentInBuffer = s.currentInBuffer
             /\ s'.currentPtr = s.currentPtr
             /\ lastRet' = lastRet]_vars

\* A second isAvailable in a row on a text stream with unread data.
C5_Witness ==
    /\ lastOp.op = "isAvailable" /\ lastOp.again
    /\ lastRet.val = 1 /\ s.currentPtr < s.currentInBuffer /\ s.isText

\* C6: a wait (for input, for output, or the one inside a read) returns only
\* when the readiness test made last, after any resume, returned true.
C6_WaitReturnsWhenReady ==
    (lastOp.op \in {"waitInput", "waitBase", "waitOutput", "read"}
        /\ lastRet.res = "ok")
        => ready[lastOp.task]

\* A wait for output that has paused, was resumed and has returned.
C6_Witness ==
    /\ lastOp.op = "waitOutput" /\ lastOp.resumed
    /\ lastRet.res = "ok" /\ ready[lastOp.task]

\* C7: pollDescriptors called with an empty stream vector and blockType 1
\* returns at once; it never calls ThreadPause.
C7_EmptyPollReturnsAtOnce ==
    (pollStrm = <<>> /\ blockType = 1 /\ pollPc # "idle")
        => (pollPc = "done" /\ pollPauses = 0)

C7_EmptyPollPaused ==
    pollStrm = <<>> /\ blockType = 1 /\ pollPc = "paused" /\ pollPauses = MaxPause

\* The names of an enumeration without "." and "..".
RECURSIVE RealNames(_)
RealNames(l) ==
    IF l = <<>> THEN <<>>
    ELSE IF Head(l).name \in {".", ".."} THEN RealNames(Tail(l))
         ELSE <<Head(l).name>> \o RealNames(Tail(l))

\* C8: while every find call succeeds or reports "no more files", the names
\* readDirectory has returned since the open or the last rewind are the first
\* entries of the directory in the order of the OS, "." and ".." left out, and
\* when it returns the empty name they are all of them.
C8_DirectoryReadsInOrder ==
    (dirRef = "open" /\ ~dirFailed /\ dirLast.op = "read" /\ dirLast.res = "ok")
        => /\ IsPrefix(dirOut, RealNames(dirList))
           /\ (dirLast.name = "" => dirOut = RealNames(dirList))

\* The directory {., .., a, b} read to the end a second time, after a rewind.
C8_Witness ==
    /\ dirList = <<Entry(".", TRUE), Entry("..", TRUE), Entry("a", FALSE),
                   Entry("b", FALSE)>>
    /\ dirRewound /\ ~dirFailed
    /\ dirLast = DirEvent("read", "ok", "")
    /\ dirOut = <<"a", "b">>

\* C11: an isAvailable, read or setPos that raises because a raw read attempt
\* failed leaves currentInBuffer, currentPtr and endOfStream as they were
\* when the operation started (stated for the operations that run from the
\* call to the raise without a pause).
C11_RaiseLeavesBufferState ==
    [][(ref = "open" /\ lastOp'.op \in {"isAvailable", "read", "setPos"}
            /\ ~lastOp'.resumed /\ lastRet'.res = "raise")
          => /\ s'.currentInBuffer = s.currentInBuffer
             /\ s'.currentPtr = s.currentPtr
             /\ s'.endOfStream = s.endOfStream]_vars

\* A read has raised after it had taken the last buffered byte.
C11_Witness ==
    /\ ref = "open" /\ lastOp.op = "read" /\ ~lastOp.resumed
    /\ lastRet.res = "raise" /\ s.io = "err" /\ s.currentInBuffer = 0

\* C12: ReadFile is never called on the OVERLAPPED of a stream while the raw
\* read issued before on it has not completed.
C12_OneOutstandingRead == ~s.overlapped2

\* C13: no task is suspended in ThreadPauseForIO while it holds the lock of
\* the stream.
C13_NoLockAcrossYield ==
    \A t \in Tasks : pc[t] # "idle" => lock # t

\* A task is suspended inside setPos.
C13_SetPosPaused ==
    \E t \in Tasks : pc[t] = "setPos" /\ s.io = "pending"

AllZero(v) == \A i \in 1..Len(v) : v[i] = 0

\* C14: the vector pollDescriptors returns is as long as the stream vector.
C14_ResultLengthIsInputLength ==
    (pollPc = "done" /\ pollRet = "ok") => Len(pollRes) = Len(pollStrm)

\* A poll to a deadline of three streams has returned with none ready.
C14_Witness ==
    /\ pollPc = "done" /\ pollRet = "ok" /\ blockType = 0 /\ pollPauses > 0
    /\ Len(pollStrm) = 3 /\ AllZero(pollSeen) /\ Len(pollRes) = 3

\* C15: with blockType 2 pollDescriptors makes one pass and ends without a
\* ThreadPause; the vector it returns when no stream reported an event is
\* all zero.
C15_NonblockNeverPauses ==
    (blockType = 2 /\ pollPc # "idle")
        => /\ pollPc = "done" /\ pollPauses = 0
           /\ (pollRet = "ok" /\ AllZero(pollSeen) => AllZero(pollRes))

\* A poll with blockType 2 of two streams, none ready, has returned.
C15_Witness ==
    /\ blockType = 2 /\ pollPc = "done" /\ pollRet = "ok" /\ pollPauses = 0
    /\ Len(pollStrm) = 2 /\ AllZero(pollSeen) /\ pollRes = <<0, 0>>

\* C16: a pass in which a stream reported an event ends with the return,
\* without a ThreadPause and without reading the time: after a pass that
\* paused or read the time, no stream had reported anything.
C16_ReadyPassReturns ==
    (pollPc # "idle" /\ pollRet = "ok")
        => /\ ~AllZero(pollSeen) => (pollPc = "done" /\ pollNow = -1)
           /\ (pollPc = "paused" \/ pollNow >= 0) => AllZero(pollSeen)

\* A poll to a deadline not yet reached has returned, after a pause, from a
\* pass in which a stream was ready.
C16_Witness ==
    /\ blockType = 0 /\ pollPc = "done" /\ pollRet = "ok" /\ pollPauses > 0
    /\ deadline > now /\ ~AllZero(pollSeen) /\ pollNow = -1

C18_BlockForever ==
    (blockType = 1 /\ pollStrm # <<>> /\ pollPc # "idle" /\ pollRet = "ok")
        => /\ pollPc = "paused"
                => (Len(pollSeen) = Len(pollStrm) /\ AllZero(pollSeen))
           /\ pollPc = "done" => (~AllZero(pollSeen) /\ ~AllZero(pollRes))

\* A blocking poll has paused and then returned from a pass in which a
\* stream was ready.
C18_Witness ==
    /\ blockType = 1 /\ pollStrm # <<>> /\ pollPc = "done" /\ pollRet = "ok"
    /\ pollPauses > 0 /\ ~AllZero(pollSeen)

\* C19: opening a directory in which the first find call matches nothing
\* succeeds with a stream marked exhausted, and a read of it returns the
\* empty name.
C19_OpenEmptyDirectory ==
    (dirList = <<>> /\ dirLast.op \in {"open", "read"})
        => /\ dirLast.res = "ok" /\ dirRef = "open" /\ ~pData.fFindSucceeded
           /\ dirLast.op = "read" => dirLast.name = ""

\* C20: close calls on the references to the standard streams change
\* nothing: no standard stream is deleted, no reference is cleared, and an
\* operation on a standard stream succeeds after any number of them.
C20_StandardStreamsStayOpen ==
    /\ \A x \in StandardStreams : stdRef[x] = x /\ stdLive[x]
    /\ stdLast.op = "fileKind" => stdLast.res = "ok"

\* Standard error is used after MaxClose close calls, the last one on it.
C20_Witness ==
    /\ stdCloses = MaxClose
    /\ stdLast = [op |-> "fileKind", strm |-> "standardError", res |-> "ok"]
    /\ ref = "closed"

\* C21: the handles of a stream are released once: the reference is
\* cleared exactly when they have been released, a close that raises leaves
\* the reference as it was, and no close acts on a descriptor that an earlier
\* close has released.
C21_HandlesReleasedOnce ==
    /\ ref = "closed" <=> (ref # "unopened" /\ ~s.hStream /\ ~s.hEvent)
    /\ wRef = "closed" => ioDesc = "released"
    /\ (wLast.op = "close" /\ wLast.res = "raise") => wRef = "open"
    /\ ~wBad

\* A close of the file opened for writing has raised and a later close of
\* it has ended.
C21_Witness ==
    /\ wBad /\ wLast.op = "close"
    /\ ref = "closed" /\ lastOp.op = "close" /\ lastOp.again

\* C22: closeDirectory on an open directory closes the search handle, clears
\* the reference and returns success; on a cleared reference it releases
\* nothing, changes nothing and returns success; readDirectory and
\* rewindDirectory on a cleared reference fail with STREAMCLOSED.
C22_CloseDirectoryIdempotent ==
    [][/\ (dirLast'.op = "close" /\ dirRef = "open")
            => /\ dirRef' = "closed" /\ dirLast'.res = "ok"
               /\ findLive' = 0 /\ pData' = NewDirData
       /\ (dirLast'.op = "close" /\ dirRef = "closed")
            => /\ dirLast'.res = "ok"
               /\ UNCHANGED <<dirRef, pData, findLive, findBad>>
       /\ (dirRef = "closed" /\ dirLast'.op \in {"read", "rewind"})
            => /\ dirLast'.res = "closed"
               /\ UNCHANGED <<dirRef, pData, findLive, findBad>>]_vars

\* A directory has been read, closed, and closed a second time.
C22_Witness ==
    /\ dirRef = "closed" /\ dirOut # <<>> /\ findLive = 0 /\ ~findBad
    /\ dirLast.op = "close" /\ dirLast.again /\ dirLast.res = "ok"

\* C23: getPos and setPos on a stream whose device is not a disk file raise
\* and change nothing: the stream object (buffer, currentInBuffer,
\* currentPtr, endOfStream, the OVERLAPPED offset and the raw read) is as
\* before, the lock is free and the task has not paused.
C23_NoSeekOnPipe ==
    [][(kind # "disk" /\ lastOp'.op \in {"getPos", "setPos"})
          => /\ lastRet'.res = "raise"
             /\ s' = s
             /\ lock' = 0 /\ pc' = pc
             /\ UNCHANGED <<delivered, seekBase>>]_vars

\* setPos has raised on a pipe with an unread byte in the buffer.
C23_Witness ==
    /\ kind = "pipe" /\ lastOp.op = "setPos" /\ lastRet.res = "raise"
    /\ s.currentPtr < s.currentInBuffer /\ delivered # <<>>

\* C24: an isAvailable called with unread bytes in the buffer or at the end
\* of the stream returns true and leaves the stream object as it was:
\* currentInBuffer, currentPtr, endOfStream and the OVERLAPPED offset.
C24_IsAvailableWithDataIsPure ==
    [][(ref = "open" /\ lastOp'.op = "isAvailable"
            /\ (s.currentPtr < s.currentInBuffer \/ s.endOfStream))
          => /\ lastRet'.res = "ok" /\ lastRet'.val = 1
             /\ s'.currentInBuffer = s.currentInBuffer
             /\ s'.currentPtr = s.currentPtr
             /\ s'.endOfStream = s.endOfStream
             /\ s'.overlapPos = s.overlapPos]_vars

\* isAvailable has returned true with an unread byte in the buffer, and the
\* OVERLAPPED offset is past the end of the block in the buffer.
C24_Witness ==
    /\ ref = "open" /\ lastOp.op = "isAvailable" /\ lastRet.val = 1
    /\ s.currentPtr < s.currentInBuffer /\ ~s.endOfStream
    /\ seekBase < 0 /\ delivered = <<>> /\ s.overlapPos > s.currentInBuffer

\* C25: in every state of the stream 0 <= currentPtr <= currentInBuffer <=
\* buffSize.
C25_CursorWithinFilled ==
    /\ 0 <= s.currentPtr /\ s.currentPtr <= s.currentInBuffer
    /\ s.currentInBuffer <= BuffSize

\* A text stream after a block of carriage returns only: the cursor is
\* behind the end of the block that followed.
C25_Witness ==
    /\ ref = "open" /\ s.isText /\ s.currentPtr > s.currentInBuffer
    /\ s.currentInBuffer > 0 /\ lastOp.op = "read" /\ lastRet.val = 0

\* C26: while the stream is not at its end, a raw read is in flight only
\* with currentPtr = currentInBuffer; an exhausted buffer that is not empty
\* has a raw read in flight; and a read that has exhausted the buffer leaves
\* currentPtr = currentInBuffer = 0 with the next raw read issued.
C26_ReadOutstandingIffExhausted ==
    (ref = "open" /\ ~s.endOfStream)
        => /\ s.io = "pending" => s.currentPtr = s.currentInBuffer
           /\ (s.currentPtr = s.currentInBuffer /\ s.currentInBuffer > 0)
                => s.io = "pending"
           /\ (lastOp.op = "read" /\ lastRet.res = "ok"
                 /\ s.currentPtr = s.currentInBuffer)
                => (s.currentInBuffer = 0 /\ s.io # "idle")

\* A raw read is in flight on a text stream whose cursor is behind the end
\* of the block in the buffer.
C26_Witness ==
    /\ ref = "open" /\ ~s.endOfStream /\ s.io = "pending"
    /\ s.currentPtr > s.currentInBuffer

\* C27: once endOfStream is set, isAvailable returns true, a read returns
\* zero bytes and leaves the stream object as it is, getPos leaves it set,
\* and the only step that clears it is a setPos that succeeds.
C27_EndOfStreamSticky ==
    [][(ref = "open" /\ ref' = "open" /\ s.endOfStream)
          => /\ lastOp'.op = "isAvailable"
                  => (lastRet'.res = "ok" /\ lastRet'.val = 1 /\ s' = s)
             /\ lastOp'.op = "read"
                  => (lastRet'.res = "ok" /\ lastRet'.val = 0 /\ s' = s)
             /\ lastOp'.op = "getPos" => s' = s
             /\ ~s'.endOfStream
                  => (lastOp'.op = "setPos" /\ lastRet'.res = "ok")]_vars

\* A setPos on a stream at its end has raised, and the stream is no longer
\* at its end.
C27_Witness ==
    /\ ref = "open" /\ lastOp.op = "setPos" /\ lastRet.res = "raise"
    /\ ~s.endOfStream /\ s.io = "err" /\ content = <<>>

\* C28: setPos changes the stream object only when no raw read is in
\* flight: a task paused in setPos has changed nothing, and a setPos that
\* returns found no read in flight, has emptied the buffer, set the
\* OVERLAPPED offset to the position asked for and issued one raw read, which
\* takes its data at that offset.
C28_SetPosWaitsForRead ==
    [][/\ (ref = "open" /\ lastOp'.op = "pause"
             /\ \E t \in Tasks : pc'[t] = "setPos")
          => s' = s
       /\ (ref = "open" /\ lastOp'.op = "setPos")
          => /\ s.io # "pending"
             /\ ~s'.overlapped2
             /\ lastRet'.res = "ok"
                  => /\ s'.currentInBuffer = 0 /\ s'.currentPtr = 0
                     /\ s'.overlapPos = lastRet'.val
                     /\ s'.io \in {"pending", "done", "eof"}
                     /\ s'.io = "done"
                          => SubSeq(s'.buffer, 1, s'.ioBytes)
                               = SubSeq(content, lastRet'.val + 1,
                                        lastRet'.val + s'.ioBytes)]_vars

\* setPos has returned having started a raw read while the one before was
\* in flight.
C28_Witness ==
    /\ ref = "open" /\ lastOp.op = "setPos" /\ lastRet.res = "ok"
    /\ s.overlapped2 /\ s.io = "pending"

C30_FindErrorsRaised ==
    (dirRef = "open" /\ dirLast.op = "read" /\ dirLast.res = "ok")
        => /\ IsPrefix(dirOut, RealNames(dirList))
           /\ pData.fFindSucceeded
                => dirOut = RealNames(SubSeq(dirList, 1, findPos - 1))

\* readDirectory has returned the same entry twice after a find call failed.
C30_Witness ==
    /\ dirRef = "open" /\ dirFailed /\ ~dirRewound
    /\ dirLast.op = "read" /\ dirLast.res = "ok"
    /\ Len(dirOut) = 2 /\ dirOut[1] = dirOut[2]

\* C31: a read of at least one byte (waitUntilAvailable, then readStream)
\* returns zero bytes only when the stream is at its end.
C31_ZeroBytesOnlyAtEnd ==
    (ref = "open" /\ lastOp.op = "read" /\ lastRet.res = "ok" /\ lastRet.val = 0)
        => s.endOfStream

\* A read of a text stream has returned zero bytes with a data byte of the
\* file not delivered and the stream not at its end.
C31_Witness ==
    /\ ref = "open" /\ lastOp.op = "read" /\ lastRet.res = "ok" /\ lastRet.val = 0
    /\ ~s.endOfStream /\ s.isText /\ delivered # Expected(0) /\ seekBase < 0

\* C32: when every raw read completes and every suspended task is resumed,
\* a task waiting in waitUntilAvailable leaves it and a task waiting in
\* setPos leaves it.
C32_WaitsEnd ==
    /\ (pc[1] = "waitInput") ~> (pc[1] = "idle")
    /\ (pc[1] = "setPos") ~> (pc[1] = "idle")

\* A task is suspended in setPos on a stream at its end whose event is not
\* set, with no raw read in flight.
C32_Witness ==
    /\ pc[1] = "setPos" /\ lock = 1 /\ s.endOfStream
    /\ ~s.signalled /\ s.io = "eof"

\* C33: a task suspended on hInputAvailable while the pipe holds unread data
\* finds the event set, unless the copy thread has just added the data and
\* is about to set it; and waitUntilAvailable returns only with the event
\* set.
C33_NoLostWakeup ==
    /\ (ciPc = "waiting" /\ pipeAvail > 0 /\ copyPc = "idle") => hInputAvailable
    /\ (ciPc = "waiting" /\ pipeClosed) => hInputAvailable

\* The copy thread has added data and set the event between the
\* PeekNamedPipe that found the pipe empty and the suspension of the task.
C33_Witness ==
    /\ ciPc = "waiting" /\ pipeAvail > 0 /\ copyPc = "idle" /\ hInputAvailable
    /\ ciLast = "read"

\* C34: every search handle obtained is closed once: FindClose is never
\* called on a handle already closed, and after closeDirectory no search
\* handle is open.
C34_SearchHandleReleasedOnce ==
    /\ ~findBad
    /\ findLive \in {0, 1}
    /\ dirRef = "closed" => findLive = 0
    /\ dirRef = "open" => (findLive = 1 <=> pData.hFind = "live")

\* A directory has been closed after a rewind whose find call failed.
C34_Witness ==
    /\ dirRef = "closed" /\ findBad /\ findLive = 0 /\ ~dirRewound
    /\ dirLast.op = "close"

\* C35: every readDirectory call ends: none is still in its loop, with no
\* name found, after MaxFindFail find calls in a row have failed.
C35_ReadDirectoryEnds == dirPc # "looping"

\* readDirectory loops on "." with a search handle that a failed rewind has
\* left closed: every further find call fails the same way.
C35_Witness ==
    /\ dirPc = "looping" /\ pData.hFind = "stale" /\ IsPseudo(pData.lastFind)
    /\ pData.fFindSucceeded /\ dirLast.op = "read"

\* C9: the OS never completes a raw read into a stream that has been deleted.
C9_NoCompletionAfterDelete == ~lateWrite

\* C10: every stream operation on a cleared reference fails with STREAMCLOSED.
C10_ClosedStreamRaises ==
    (lastOp.op = "onClosed" /\ lastRet.val \in StreamCodes)
        => lastRet.res = "closed"

====
